---- MODULE Spec2Model ----
(***************************************************************************)
(* Verification model of the graph-algorithm library: the union-find       *)
(* forest (UF), the adjacency-list Graph store and the algorithms built on *)
(* them.  Every algorithm is a pure function of the Graph it is given, so  *)
(* it is an operator computed the way the code computes it; an action      *)
(* applies it to the graph built so far and records the outcome in `ret'.  *)
(***************************************************************************)
EXTENDS Integers, Sequences, FiniteSets, Bags, TLC

VARIABLES
  p,         \* UF::p      vertex id -> parent id
  rank,      \* UF::rank   vertex id -> rank
  cc_cnt,    \* UF::cc_cnt
  linked,    \* history: equivalence closure of the pairs given to union_vertices
  vertices,  \* Graph::vertices  (std::list<int>)
  adj_list,  \* Graph::adj_list  (std::map<int, std::list<Edge>>)
  call,      \* the last operation invoked and its arguments
  ret        \* what that operation returned

vars == <<p, rank, cc_cnt, linked, vertices, adj_list, call, ret>>
ufVars == <<p, rank, cc_cnt, linked>>
graphVars == <<vertices, adj_list>>

----------------------------------------------------------------------------
(* Bounds of the model *)

NumIds == 4       \* ids offered to the union-find
NumVertices == 3  \* vertex ids offered to the Graph store
MaxEdges == 3     \* add_edge calls (directed graphs) per graph
MaxUEdges == 3    \* undirected insertions (an edge and its reverse) per graph
MaxWeight == 2    \* largest edge weight offered

Ids == 0 .. (NumIds - 1)
VertexIds == 0 .. (NumVertices - 1)

----------------------------------------------------------------------------
(* Generic helpers: maps with a growing key set, sequences *)

NoCall == [op |-> "none"]
NoRet == [kind |-> "none"]

Put(m, k, x) == [y \in (DOMAIN m) \cup {k} |-> IF y = k THEN x ELSE m[y]]

Range(s) == {s[i] : i \in DOMAIN s}

Max(a, b) == IF a >= b THEN a ELSE b

RECURSIVE SumSeq(_)
SumSeq(s) == IF s = <<>> THEN 0 ELSE Head(s) + SumSeq(Tail(s))

\* closure of a relation R over a finite carrier: reflexive on S, symmetric,
\* transitive (least fixed point by iteration).
RECURSIVE TransClose(_)
TransClose(R) ==
  LET step == R \cup {<<a, c>> \in {<<x[1], y[2]>> : x \in R, y \in R} :
                        \E b \in {x[2] : x \in R} : <<a, b>> \in R /\ <<b, c>> \in R}
  IN IF step = R THEN R ELSE TransClose(step)

EquivClosure(S, R) ==
  TransClose(R \cup {<<x[2], x[1]>> : x \in R} \cup {<<a, a>> : a \in S})

----------------------------------------------------------------------------
(* UF: union-find with path compression and union by rank *)

\* p[id] and rank[id] are read with std::unordered_map::operator[], which
\* creates the entry 0 for an id that has none (an id never given to
\* add_vertex); for a registered id the map is left as it is.
p_entry(pm, id) == IF id \in DOMAIN pm THEN pm ELSE Put(pm, id, 0)

rank_entry(rk, id) == IF id \in DOMAIN rk THEN rk ELSE Put(rk, id, 0)

\* the ids the recursion of UF::find is called with, from id up to the root
RECURSIVE find_ids(_, _)
find_ids(pm, id) ==
  LET pm0 == p_entry(pm, id)
  IN IF pm0[id] = id THEN <<id>> ELSE <<id>> \o find_ids(pm0, pm0[id])

\* find that stores the old parent back: the root is returned, nothing is
\* compressed
RECURSIVE find_no_compression(_, _)
find_no_compression(pm, id) ==
  LET pm0 == p_entry(pm, id)
  IN IF pm0[id] = id
       THEN [p |-> pm0, r |-> id]
       ELSE LET sub == find_no_compression(pm0, pm0[id])
            IN [p |-> sub.p, r |-> sub.r]

\* UF::find: returns the root and the parent map after path compression.
RECURSIVE find(_, _)
find(pm, id) ==
  LET pm0 == p_entry(pm, id)
  IN IF pm0[id] = id
       THEN [p |-> pm0, r |-> id]
       ELSE LET sub == find(pm0, pm0[id])
            IN [p |-> [sub.p EXCEPT ![id] = sub.r], r |-> sub.r]

\* UF::is_connected: find(v) == find(w); both finds compress.
is_connected(pm, v, w) ==
  LET fv == find(pm, v)
      fw == find(fv.p, w)
  IN [p |-> fw.p, r |-> (fv.r = fw.r)]

\* union_vertices with the link made at the argument instead of at its root.
union_vertices_link_arg(uf, v, w) ==
  LET fv == find(uf.p, v)
      fw == find(fv.p, w)
      root_v == fv.r
      root_w == fw.r
      pm == fw.p
  IN IF root_v = root_w
       THEN [p |-> pm, rank |-> uf.rank, cc_cnt |-> uf.cc_cnt]
       ELSE IF uf.rank[root_v] <= uf.rank[root_w]
         THEN [p |-> [pm EXCEPT ![v] = root_w],
               rank |-> IF uf.rank[root_v] = uf.rank[root_w]
                          THEN [uf.rank EXCEPT ![root_w] = @ + 1]
                          ELSE uf.rank,
               cc_cnt |-> uf.cc_cnt - 1]
         ELSE [p |-> [pm EXCEPT ![w] = root_v],
               rank |-> uf.rank,
               cc_cnt |-> uf.cc_cnt - 1]

\* union_vertices without the early return on equal roots.
union_vertices_no_return(uf, v, w) ==
  LET fv == find(uf.p, v)
      fw == find(fv.p, w)
      root_v == fv.r
      root_w == fw.r
      pm == fw.p
  IN IF uf.rank[root_v] <= uf.rank[root_w]
       THEN [p |-> [pm EXCEPT ![root_v] = root_w],
             rank |-> IF uf.rank[root_v] = uf.rank[root_w] /\ root_v # root_w
                        THEN [uf.rank EXCEPT ![root_w] = @ + 1]
                        ELSE uf.rank,
             cc_cnt |-> uf.cc_cnt - 1]
       ELSE [p |-> [pm EXCEPT ![root_w] = root_v],
             rank |-> uf.rank,
             cc_cnt |-> uf.cc_cnt - 1]

\* UF::union_vertices on the triple (p, rank, cc_cnt).
union_vertices(uf, v, w) ==
  LET fv == find(uf.p, v)
      fw == find(fv.p, w)
      root_v == fv.r
      root_w == fw.r
      pm == fw.p
  IN IF root_v = root_w
       THEN [p |-> pm, rank |-> uf.rank, cc_cnt |-> uf.cc_cnt]
       ELSE LET rk == rank_entry(rank_entry(uf.rank, root_v), root_w)
            IN IF rk[root_v] <= rk[root_w]
                 THEN [p |-> [pm EXCEPT ![root_v] = root_w],
                       rank |-> IF rk[root_v] = rk[root_w]
                                  THEN [rk EXCEPT ![root_w] = @ + 1]
                                  ELSE rk,
                       cc_cnt |-> uf.cc_cnt - 1]
                 ELSE [p |-> [pm EXCEPT ![root_w] = root_v],
                       rank |-> rk,
                       cc_cnt |-> uf.cc_cnt - 1]

\* UF::add_vertex on the triple (p, rank, cc_cnt).
uf_add_vertex(uf, id) ==
  [p |-> Put(uf.p, id, id), rank |-> Put(uf.rank, id, 1), cc_cnt |-> uf.cc_cnt + 1]

EmptyUF == [p |-> <<>>, rank |-> <<>>, cc_cnt |-> 0]

\* UF::get_cc_cnt
get_cc_cnt(uf) == uf.cc_cnt

CurUF == [p |-> p, rank |-> rank, cc_cnt |-> cc_cnt]

\* The ids are registered once each: the id offered is a fresh one.
UFAddVertex ==
  \E id \in Ids \ DOMAIN p :
    LET u == uf_add_vertex(CurUF, id)
    IN /\ p' = u.p
       /\ rank' = u.rank
       /\ cc_cnt' = u.cc_cnt
       /\ linked' = EquivClosure(DOMAIN u.p, linked)
       /\ call' = [op |-> "add_vertex", v |-> id]
       /\ ret' = NoRet
       /\ UNCHANGED graphVars

UFUnionVertices ==
  \E v \in DOMAIN p, w \in DOMAIN p :
    LET u == union_vertices(CurUF, v, w)
    IN /\ p' = u.p
       /\ rank' = u.rank
       /\ cc_cnt' = u.cc_cnt
       /\ linked' = EquivClosure(DOMAIN p, linked \cup {<<v, w>>})
       /\ call' = [op |-> "union_vertices", v |-> v, w |-> w]
       /\ ret' = NoRet
       /\ UNCHANGED graphVars

UFFind ==
  \E v \in DOMAIN p :
    LET f == find(p, v)
    IN /\ p' = f.p
       /\ call' = [op |-> "find", v |-> v]
       /\ ret' = [kind |-> "id", val |-> f.r, ids |-> find_ids(p, v)]
       /\ UNCHANGED <<rank, cc_cnt, linked, graphVars>>

UFIsConnected ==
  \E v \in DOMAIN p, w \in DOMAIN p :
    LET c == is_connected(p, v, w)
    IN /\ p' = c.p
       /\ call' = [op |-> "is_connected", v |-> v, w |-> w]
       /\ ret' = [kind |-> "bool", val |-> c.r]
       /\ UNCHANGED <<rank, cc_cnt, linked, graphVars>>

\* the same three operations called with any id, registered or not
UFFindAny ==
  \E v \in Ids :
    LET f == find(p, v)
    IN /\ p' = f.p
       /\ call' = [op |-> "find", v |-> v]
       /\ ret' = [kind |-> "id", val |-> f.r, ids |-> find_ids(p, v)]
       /\ UNCHANGED <<rank, cc_cnt, linked, graphVars>>

UFUnionAny ==
  \E v \in Ids, w \in Ids :
    LET u == union_vertices(CurUF, v, w)
    IN /\ p' = u.p
       /\ rank' = u.rank
       /\ cc_cnt' = u.cc_cnt
       /\ call' = [op |-> "union_vertices", v |-> v, w |-> w]
       /\ ret' = NoRet
       /\ UNCHANGED <<linked, graphVars>>

UFIsConnectedAny ==
  \E v \in Ids, w \in Ids :
    LET c == is_connected(p, v, w)
    IN /\ p' = c.p
       /\ call' = [op |-> "is_connected", v |-> v, w |-> w]
       /\ ret' = [kind |-> "bool", val |-> c.r]
       /\ UNCHANGED <<rank, cc_cnt, linked, graphVars>>

InitUF ==
  /\ p = EmptyUF.p
  /\ rank = EmptyUF.rank
  /\ cc_cnt = EmptyUF.cc_cnt
  /\ linked = {}
  /\ vertices = <<>>
  /\ adj_list = <<>>
  /\ call = NoCall
  /\ ret = NoRet

NextUF == UFAddVertex \/ UFUnionVertices \/ UFFind \/ UFIsConnected

SpecUF == InitUF /\ [][NextUF]_vars

\* a caller that does not keep to registered ids
NextUFAny == UFAddVertex \/ UFFindAny \/ UFUnionAny \/ UFIsConnectedAny

SpecUFAny == InitUF /\ [][NextUFAny]_vars

----------------------------------------------------------------------------
(* Edge and the Graph store *)

\* struct Edge {v, w, weight}
Edge(v, w, weight) == [v |-> v, w |-> w, weight |-> weight]

\* Edge::reversed
reversed(e) == [v |-> e.w, w |-> e.v, weight |-> e.weight]

\* Edge::equal: same unordered endpoint pair
equal(e, other) ==
  (e.v = other.v /\ e.w = other.w) \/ (e.w = other.v /\ e.v = other.w)

\* dedup_edges: keeps the first edge of every unordered endpoint pair
RECURSIVE dedup_edges_from(_, _)
dedup_edges_from(edges, es) ==
  IF edges = <<>> THEN es
  ELSE LET e == Head(edges)
       IN IF \E i \in DOMAIN es : equal(e, es[i])
            THEN dedup_edges_from(Tail(edges), es)
            ELSE dedup_edges_from(Tail(edges), Append(es, e))

dedup_edges(edges) == dedup_edges_from(edges, <<>>)

\* a default-constructed Graph
EmptyGraph == [vertices |-> <<>>, adj_list |-> <<>>]

\* Graph::maybe_add_vertex
maybe_add_vertex(g, v) ==
  IF v \in Range(g.vertices) THEN g
  ELSE [g EXCEPT !.vertices = Append(g.vertices, v)]

\* Graph::add_vertex
add_vertex(g, v) == maybe_add_vertex(g, v)

\* add_edge registering the source of the edge only
add_edge_source_only(g, e) ==
  LET old == IF e.v \in DOMAIN g.adj_list THEN g.adj_list[e.v] ELSE <<>>
      g1 == [g EXCEPT !.adj_list = Put(g.adj_list, e.v, Append(old, e))]
  IN maybe_add_vertex(g1, e.v)

\* Graph::add_edge
add_edge(g, e) ==
  LET old == IF e.v \in DOMAIN g.adj_list THEN g.adj_list[e.v] ELSE <<>>
      g1 == [g EXCEPT !.adj_list = Put(g.adj_list, e.v, Append(old, e))]
  IN maybe_add_vertex(maybe_add_vertex(g1, e.v), e.w)

\* Graph::all_vertices
all_vertices(g) == g.vertices

\* Graph::edges
edges(g, v) == IF v \notin DOMAIN g.adj_list THEN <<>> ELSE g.adj_list[v]

\* Graph::all_edges: the lists of the std::map, in ascending key order
RECURSIVE all_edges_of(_, _)
all_edges_of(g, keys) ==
  IF keys = {} THEN <<>>
  ELSE LET k == CHOOSE x \in keys : \A y \in keys : x <= y
       IN g.adj_list[k] \o all_edges_of(g, keys \ {k})

all_edges(g) == all_edges_of(g, DOMAIN g.adj_list)

\* Graph mst; for (v : g.all_vertices()) mst.add_vertex(v);
RECURSIVE graph_with_vertices(_, _)
graph_with_vertices(g, vs) ==
  IF vs = <<>> THEN g ELSE graph_with_vertices(add_vertex(g, Head(vs)), Tail(vs))

\* UF uf; for (v : g.all_vertices()) uf.add_vertex(v);
RECURSIVE uf_with_vertices(_, _)
uf_with_vertices(uf, vs) ==
  IF vs = <<>> THEN uf ELSE uf_with_vertices(uf_add_vertex(uf, Head(vs)), Tail(vs))

CurGraph == [vertices |-> vertices, adj_list |-> adj_list]

NumEdges(g) == Len(all_edges(g))

Reverse(s) == [i \in 1 .. Len(s) |-> s[Len(s) + 1 - i]]

\* The graph is built by incremental insertion before any algorithm runs; an
\* algorithm reads the graph and leaves it as it is, so a behaviour builds a
\* graph and applies one algorithm to it (call = NoCall until then).
\* add_vertex is offered for the first vertex of a graph (which may stay
\* without edges); the other vertices are registered by add_edge.
GraphAddVertex ==
  /\ call = NoCall
  /\ vertices = <<>>
  /\ \E v \in VertexIds :
       LET g == add_vertex(CurGraph, v)
       IN /\ vertices' = g.vertices
          /\ adj_list' = g.adj_list
  /\ UNCHANGED <<ufVars, call, ret>>

AddEdgeWeighted(W, bound) ==
  /\ call = NoCall
  /\ NumEdges(CurGraph) < bound
  /\ \E v \in VertexIds, w \in VertexIds, weight \in W :
       LET g == add_edge(CurGraph, Edge(v, w, weight))
       IN /\ vertices' = g.vertices
          /\ adj_list' = g.adj_list
  /\ UNCHANGED <<ufVars, call, ret>>

\* a caller's insertion of an undirected edge: the edge and its reverse
AddUndirectedWeighted(W, bound) ==
  /\ call = NoCall
  /\ NumEdges(CurGraph) < 2 * bound
  /\ \E v \in VertexIds, w \in VertexIds, weight \in W :
       LET e == Edge(v, w, weight)
           g == add_edge(add_edge(CurGraph, e), reversed(e))
       IN /\ vertices' = g.vertices
          /\ adj_list' = g.adj_list
  /\ UNCHANGED <<ufVars, call, ret>>

\* edges of a directed, unweighted graph carry the default weight 1
AddEdge == AddEdgeWeighted({1}, MaxEdges)

\* Graph::add_vertex called at any point of the construction
AddVertex ==
  /\ call = NoCall
  /\ \E v \in VertexIds :
       LET g == add_vertex(CurGraph, v)
       IN /\ vertices' = g.vertices
          /\ adj_list' = g.adj_list
  /\ UNCHANGED <<ufVars, call, ret>>

InitGraph ==
  /\ p = EmptyUF.p
  /\ rank = EmptyUF.rank
  /\ cc_cnt = EmptyUF.cc_cnt
  /\ linked = {}
  /\ vertices = EmptyGraph.vertices
  /\ adj_list = EmptyGraph.adj_list
  /\ call = NoCall
  /\ ret = NoRet

\* the Graph store alone: any sequence of add_vertex and add_edge calls
NextGraph == AddVertex \/ AddEdge

SpecGraph == InitGraph /\ [][NextGraph]_vars

\* reachability in g: there is a path of one or more edges from a to b
EdgePairs(g) == {<<e.v, e.w>> : e \in Range(all_edges(g))}
PathPairs(g) == TransClose(EdgePairs(g))
\* ... of zero or more edges
Reaches(g, a, b) == a = b \/ <<a, b>> \in PathPairs(g)

----------------------------------------------------------------------------
(* Directed graphs: DFS postorder, Kosaraju, cycle detection, topological sort *)

\* dfs(g, v, postorder, visited) of the topological sort; st = [postorder, visited]
RECURSIVE dfs_postorder(_, _, _), dfs_postorder_edges(_, _, _)
dfs_postorder(g, v, st) ==
  LET s1 == dfs_postorder_edges(g, edges(g, v), [st EXCEPT !.visited = @ \cup {v}])
  IN [s1 EXCEPT !.postorder = Append(@, v)]

dfs_postorder_edges(g, es, st) ==
  IF es = <<>> THEN st
  ELSE LET e == Head(es)
       IN IF e.w \notin st.visited
            THEN dfs_postorder_edges(g, Tail(es), dfs_postorder(g, e.w, st))
            ELSE dfs_postorder_edges(g, Tail(es), st)

\* for (v : g.all_vertices()) if (!visited.count(v)) dfs(g, v, postorder, visited);
RECURSIVE dfs_postorder_all(_, _, _)
dfs_postorder_all(g, vs, st) ==
  IF vs = <<>> THEN st
  ELSE IF Head(vs) \notin st.visited
    THEN dfs_postorder_all(g, Tail(vs), dfs_postorder(g, Head(vs), st))
    ELSE dfs_postorder_all(g, Tail(vs), st)

\* dfs(g, v, cc_id, cc, visited) of the connected components; st = [cc, visited]
RECURSIVE dfs_cc(_, _, _, _), dfs_cc_edges(_, _, _, _)
dfs_cc(g, v, cc_id, st) ==
  LET old == IF cc_id \in DOMAIN st.cc THEN st.cc[cc_id] ELSE <<>>
  IN dfs_cc_edges(g, edges(g, v), cc_id,
                  [cc |-> Put(st.cc, cc_id, Append(old, v)),
                   visited |-> st.visited \cup {v}])

dfs_cc_edges(g, es, cc_id, st) ==
  IF es = <<>> THEN st
  ELSE LET e == Head(es)
       IN IF e.w \notin st.visited
            THEN dfs_cc_edges(g, Tail(es), cc_id, dfs_cc(g, e.w, cc_id, st))
            ELSE dfs_cc_edges(g, Tail(es), cc_id, st)

\* pass 2 of kosaraju_scc: it walks g (the transposed graph rg is built but
\* never used) and cc_id stays 0.
RECURSIVE kosaraju_pass2(_, _, _, _)
kosaraju_pass2(g, order, cc_id, st) ==
  IF order = <<>> THEN st
  ELSE IF Head(order) \notin st.visited
    THEN kosaraju_pass2(g, Tail(order), cc_id, dfs_cc(g, Head(order), cc_id, st))
    ELSE kosaraju_pass2(g, Tail(order), cc_id, st)

\* kosaraju_scc: returns cc, a map group id -> list of vertices
kosaraju_scc(g) ==
  LET pass1 == dfs_postorder_all(g, all_vertices(g), [postorder |-> <<>>, visited |-> {}])
      reversed_postorder == Reverse(pass1.postorder)
      cc_id == 0
  IN kosaraju_pass2(g, reversed_postorder, cc_id, [cc |-> <<>>, visited |-> {}]).cc

Kosaraju ==
  /\ call = NoCall
  /\ call' = [op |-> "kosaraju_scc"]
  /\ ret' = [kind |-> "cc", val |-> kosaraju_scc(CurGraph)]
  /\ UNCHANGED <<ufVars, graphVars>>

\* the cycle printed on a back edge v -> w: w, then v and its parents up to w
\* (std::unordered_map::at throws when a vertex has no parent entry)
RECURSIVE cycle_walk(_, _, _, _)
cycle_walk(parent, x, w, acc) ==
  IF x = w THEN <<w>> \o acc
  ELSE IF x \notin DOMAIN parent THEN <<"out_of_range">>
  ELSE cycle_walk(parent, parent[x], w, <<x>> \o acc)

\* dfs without the pop of the ancestor stack on return
RECURSIVE dfs_cycle_no_erase(_, _, _), dfs_cycle_no_erase_edges(_, _, _, _)
dfs_cycle_no_erase(g, v, st) ==
  dfs_cycle_no_erase_edges(g, v, edges(g, v),
    [st EXCEPT !.visited = @ \cup {v}, !.ancestors = @ \cup {v}])

dfs_cycle_no_erase_edges(g, v, es, st) ==
  IF es = <<>> THEN [st EXCEPT !.found = FALSE]
  ELSE LET w == Head(es).w
       IN IF w \notin st.visited
            THEN LET sub == dfs_cycle_no_erase(g, w, [st EXCEPT !.parent = Put(@, w, v)])
                 IN IF sub.found THEN sub
                    ELSE dfs_cycle_no_erase_edges(g, v, Tail(es), sub)
          ELSE IF w \in st.ancestors
            THEN [st EXCEPT !.found = TRUE, !.back = <<v, w>>,
                            !.cycle = cycle_walk(st.parent, v, w, <<w>>)]
          ELSE dfs_cycle_no_erase_edges(g, v, Tail(es), st)

\* dfs(g, v, visited, ancestors, parent) of the directed cycle detection;
\* st = [visited, ancestors, parent, found, back, cycle]
RECURSIVE dfs_cycle(_, _, _), dfs_cycle_edges(_, _, _, _)
dfs_cycle(g, v, st) ==
  dfs_cycle_edges(g, v, edges(g, v),
    [st EXCEPT !.visited = @ \cup {v}, !.ancestors = @ \cup {v}])

dfs_cycle_edges(g, v, es, st) ==
  IF es = <<>> THEN [st EXCEPT !.ancestors = @ \ {v}, !.found = FALSE]
  ELSE LET w == Head(es).w
       IN IF w \notin st.visited
            THEN LET sub == dfs_cycle(g, w, [st EXCEPT !.parent = Put(@, w, v)])
                 IN IF sub.found THEN sub
                    ELSE dfs_cycle_edges(g, v, Tail(es), sub)
          ELSE IF w \in st.ancestors
            THEN [st EXCEPT !.found = TRUE, !.back = <<v, w>>,
                            !.cycle = cycle_walk(st.parent, v, w, <<w>>)]
          ELSE dfs_cycle_edges(g, v, Tail(es), st)

\* the loop of dfs_detect_cycle over g.all_vertices(): ancestors and parent
\* are fresh for every root, visited is shared.
RECURSIVE dfs_detect_cycle_from(_, _, _)
dfs_detect_cycle_from(g, vs, visited) ==
  IF vs = <<>> THEN [found |-> FALSE, back |-> <<>>, cycle |-> <<>>]
  ELSE IF Head(vs) \notin visited
    THEN LET r == dfs_cycle(g, Head(vs),
                     [visited |-> visited, ancestors |-> {}, parent |-> <<>>,
                      found |-> FALSE, back |-> <<>>, cycle |-> <<>>])
         IN IF r.found
              THEN [found |-> TRUE, back |-> r.back, cycle |-> r.cycle]
              ELSE dfs_detect_cycle_from(g, Tail(vs), r.visited)
    ELSE dfs_detect_cycle_from(g, Tail(vs), visited)

\* dfs_detect_cycle (directed)
dfs_detect_cycle(g) == dfs_detect_cycle_from(g, all_vertices(g), {})

DfsDetectCycle ==
  LET r == dfs_detect_cycle(CurGraph)
  IN /\ call = NoCall
     /\ call' = [op |-> "dfs_detect_cycle"]
     /\ ret' = [kind |-> "bool", val |-> r.found, back |-> r.back, cycle |-> r.cycle]
     /\ UNCHANGED <<ufVars, graphVars>>

\* the loop of uf_detect_cycle over a list of edges
RECURSIVE uf_detect_cycle_loop(_, _)
uf_detect_cycle_loop(es, uf) ==
  IF es = <<>> THEN FALSE
  ELSE LET e == Head(es)
           c == is_connected(uf.p, e.v, e.w)
       IN IF c.r THEN TRUE
          ELSE uf_detect_cycle_loop(Tail(es),
                 union_vertices([uf EXCEPT !.p = c.p], e.v, e.w))

\* uf_detect_cycle of the directed cycle detection: the union-find runs over
\* g.all_edges() as they are stored
uf_detect_cycle(g) ==
  uf_detect_cycle_loop(all_edges(g), uf_with_vertices(EmptyUF, all_vertices(g)))

UfDetectCycle ==
  /\ call = NoCall
  /\ call' = [op |-> "uf_detect_cycle"]
  /\ ret' = [kind |-> "bool", val |-> uf_detect_cycle(CurGraph)]
  /\ UNCHANGED <<ufVars, graphVars>>

\* dfs_topological_sorting
dfs_topological_sorting(g) ==
  IF dfs_detect_cycle(g).found THEN <<>>
  ELSE Reverse(dfs_postorder_all(g, all_vertices(g),
                                 [postorder |-> <<>>, visited |-> {}]).postorder)

DfsTopologicalSorting ==
  /\ call = NoCall
  /\ call' = [op |-> "dfs_topological_sorting"]
  /\ ret' = [kind |-> "order", val |-> dfs_topological_sorting(CurGraph)]
  /\ UNCHANGED <<ufVars, graphVars>>

\* ++indegree[e.w] for every edge of g.all_edges()
RECURSIVE count_indegree(_, _)
count_indegree(es, indegree) ==
  IF es = <<>> THEN indegree
  ELSE count_indegree(Tail(es), [indegree EXCEPT ![Head(es).w] = @ + 1])

\* the vertices of iteration order `iter' whose indegree is 0, in that order
RECURSIVE zero_indegree(_, _)
zero_indegree(iter, indegree) ==
  IF iter = <<>> THEN <<>>
  ELSE IF indegree[Head(iter)] = 0
    THEN <<Head(iter)>> \o zero_indegree(Tail(iter), indegree)
    ELSE zero_indegree(Tail(iter), indegree)

\* kahn_edges (defined below) without the indegree test before the push
RECURSIVE kahn_edges_no_check(_, _)
kahn_edges_no_check(es, st) ==
  IF es = <<>> THEN st
  ELSE LET w == Head(es).w
           d == st.indegree[w] - 1
       IN kahn_edges_no_check(Tail(es),
            [q |-> Append(st.q, w),
             indegree |-> [st.indegree EXCEPT ![w] = d]])

\* the inner loop of Kahn's algorithm over g.edges(v); st = [q, indegree]
RECURSIVE kahn_edges(_, _)
kahn_edges(es, st) ==
  IF es = <<>> THEN st
  ELSE LET w == Head(es).w
           d == st.indegree[w] - 1
       IN kahn_edges(Tail(es),
            [q |-> IF d = 0 THEN Append(st.q, w) ELSE st.q,
             indegree |-> [st.indegree EXCEPT ![w] = d]])

\* while (!q.empty()) of bfs_topological_sorting
RECURSIVE kahn_loop(_, _, _)
kahn_loop(g, st, order) ==
  IF st.q = <<>> THEN order
  ELSE LET v == Head(st.q)
       IN kahn_loop(g, kahn_edges(edges(g, v), [st EXCEPT !.q = Tail(@)]),
                    Append(order, v))

\* bfs_topological_sorting; iter is the order in which the std::unordered_map
\* indegree is iterated, which the standard leaves unspecified.
bfs_topological_sorting(g, iter) ==
  IF dfs_detect_cycle(g).found THEN <<>>
  ELSE LET indegree == count_indegree(all_edges(g),
                                      [v \in Range(all_vertices(g)) |-> 0])
       IN kahn_loop(g, [q |-> zero_indegree(iter, indegree), indegree |-> indegree], <<>>)

\* the orders in which a container holding the set S can be iterated
Perms(S) ==
  {f \in [1 .. Cardinality(S) -> S] : \A i, j \in 1 .. Cardinality(S) : f[i] = f[j] => i = j}

BfsTopologicalSorting ==
  \E iter \in Perms(Range(vertices)) :
    /\ call = NoCall
    /\ call' = [op |-> "bfs_topological_sorting"]
    /\ ret' = [kind |-> "order", val |-> bfs_topological_sorting(CurGraph, iter)]
    /\ UNCHANGED <<ufVars, graphVars>>

NextDigraph ==
  \/ GraphAddVertex
  \/ AddEdge
  \/ Kosaraju
  \/ DfsDetectCycle
  \/ UfDetectCycle
  \/ DfsTopologicalSorting
  \/ BfsTopologicalSorting

SpecDigraph == InitGraph /\ [][NextDigraph]_vars

----------------------------------------------------------------------------
(* Undirected graphs: bipartite check and connected components *)

\* dfs_color_edges (defined below) handing its own colour to the neighbour
RECURSIVE dfs_color_same(_, _, _, _), dfs_color_edges_same(_, _, _, _, _)
dfs_color_same(g, v, my_color, st) ==
  dfs_color_edges_same(g, v, edges(g, v), my_color,
    [color |-> Put(st.color, v, my_color), visited |-> st.visited \cup {v}, ok |-> TRUE])

dfs_color_edges_same(g, v, es, my_color, st) ==
  IF es = <<>> THEN [st EXCEPT !.ok = TRUE]
  ELSE LET e == Head(es)
       IN IF e.w \notin st.visited
            THEN LET sub == dfs_color_same(g, e.w, my_color, st)
                 IN IF ~sub.ok THEN sub
                    ELSE dfs_color_edges_same(g, v, Tail(es), my_color, sub)
          ELSE IF st.color[v] = st.color[e.w]
            THEN [st EXCEPT !.ok = FALSE]
          ELSE dfs_color_edges_same(g, v, Tail(es), my_color, st)

\* dfs(g, v, color, my_color, visited) of the bipartite check;
\* st = [color, visited, ok], ok is the value returned
RECURSIVE dfs_color(_, _, _, _), dfs_color_edges(_, _, _, _, _)
dfs_color(g, v, my_color, st) ==
  dfs_color_edges(g, v, edges(g, v), my_color,
    [color |-> Put(st.color, v, my_color), visited |-> st.visited \cup {v}, ok |-> TRUE])

dfs_color_edges(g, v, es, my_color, st) ==
  IF es = <<>> THEN [st EXCEPT !.ok = TRUE]
  ELSE LET e == Head(es)
       IN IF e.w \notin st.visited
            THEN LET sub == dfs_color(g, e.w, 0 - my_color, st)
                 IN IF ~sub.ok THEN sub
                    ELSE dfs_color_edges(g, v, Tail(es), my_color, sub)
          ELSE IF st.color[v] = st.color[e.w]
            THEN [st EXCEPT !.ok = FALSE]
          ELSE dfs_color_edges(g, v, Tail(es), my_color, st)

\* the loop of alter_two_color_bipartile_graph_check over g.all_vertices()
RECURSIVE two_color_from(_, _, _, _)
two_color_from(g, vs, my_color, st) ==
  IF vs = <<>> THEN TRUE
  ELSE IF Head(vs) \notin st.visited
    THEN LET r == dfs_color(g, Head(vs), my_color, st)
         IN IF ~r.ok THEN FALSE ELSE two_color_from(g, Tail(vs), my_color, r)
    ELSE two_color_from(g, Tail(vs), my_color, st)

\* alter_two_color_bipartile_graph_check
alter_two_color_bipartile_graph_check(g) ==
  two_color_from(g, all_vertices(g), 1, [color |-> <<>>, visited |-> {}, ok |-> TRUE])

BipartiteCheck ==
  /\ call = NoCall
  /\ call' = [op |-> "alter_two_color_bipartile_graph_check"]
  /\ ret' = [kind |-> "bool", val |-> alter_two_color_bipartile_graph_check(CurGraph)]
  /\ UNCHANGED <<ufVars, graphVars>>

\* the loop of dfs_connected_components with cc_id never incremented
RECURSIVE dfs_cc_all_one_id(_, _, _, _)
dfs_cc_all_one_id(g, vs, cc_id, st) ==
  IF vs = <<>> THEN st.cc
  ELSE IF Head(vs) \notin st.visited
    THEN dfs_cc_all_one_id(g, Tail(vs), cc_id, dfs_cc(g, Head(vs), cc_id, st))
    ELSE dfs_cc_all_one_id(g, Tail(vs), cc_id, st)

\* the loop of dfs_connected_components over g.all_vertices()
RECURSIVE dfs_cc_all(_, _, _, _)
dfs_cc_all(g, vs, cc_id, st) ==
  IF vs = <<>> THEN st.cc
  ELSE IF Head(vs) \notin st.visited
    THEN dfs_cc_all(g, Tail(vs), cc_id + 1, dfs_cc(g, Head(vs), cc_id, st))
    ELSE dfs_cc_all(g, Tail(vs), cc_id, st)

\* dfs_connected_components: returns cc, a map component id -> list of vertices
dfs_connected_components(g) ==
  dfs_cc_all(g, all_vertices(g), 0, [cc |-> <<>>, visited |-> {}])

\* for (e : g.all_edges()) uf.union_vertices(e.v, e.w)
RECURSIVE uf_union_all(_, _)
uf_union_all(es, uf) ==
  IF es = <<>> THEN uf
  ELSE uf_union_all(Tail(es), union_vertices(uf, Head(es).v, Head(es).w))

\* for (v : g.all_vertices()) cc[uf.find(v)].push_back(v)
RECURSIVE uf_group(_, _, _)
uf_group(vs, pm, cc) ==
  IF vs = <<>> THEN cc
  ELSE LET f == find(pm, Head(vs))
           old == IF f.r \in DOMAIN cc THEN cc[f.r] ELSE <<>>
       IN uf_group(Tail(vs), f.p, Put(cc, f.r, Append(old, Head(vs))))

\* uf_connected_components: returns cc, a map root id -> list of vertices
uf_connected_components(g) ==
  LET uf == uf_union_all(all_edges(g), uf_with_vertices(EmptyUF, all_vertices(g)))
  IN uf_group(all_vertices(g), uf.p, <<>>)

DfsConnectedComponents ==
  /\ call = NoCall
  /\ call' = [op |-> "dfs_connected_components"]
  /\ ret' = [kind |-> "cc", val |-> dfs_connected_components(CurGraph)]
  /\ UNCHANGED <<ufVars, graphVars>>

UfConnectedComponents ==
  /\ call = NoCall
  /\ call' = [op |-> "uf_connected_components"]
  /\ ret' = [kind |-> "cc", val |-> uf_connected_components(CurGraph)]
  /\ UNCHANGED <<ufVars, graphVars>>

\* parent[v] read with operator[]: a vertex without an entry (the root of a
\* search) gets the entry 0
parent_entry(parent, v) == IF v \in DOMAIN parent THEN parent ELSE Put(parent, v, 0)

\* the undirected dfs without the test that skips the edge back to the parent
RECURSIVE dfs_undirected_no_skip(_, _, _), dfs_undirected_no_skip_edges(_, _, _, _)
dfs_undirected_no_skip(g, v, st) ==
  dfs_undirected_no_skip_edges(g, v, edges(g, v),
    [st EXCEPT !.visited = @ \cup {v}, !.ancestors = @ \cup {v}])

dfs_undirected_no_skip_edges(g, v, es, st) ==
  IF es = <<>> THEN [st EXCEPT !.ancestors = @ \ {v}, !.found = FALSE]
  ELSE LET w == Head(es).w
       IN IF w \notin st.visited
            THEN LET sub == dfs_undirected_no_skip(g, w, [st EXCEPT !.parent = Put(@, w, v)])
                 IN IF sub.found THEN sub
                    ELSE dfs_undirected_no_skip_edges(g, v, Tail(es), sub)
          ELSE IF w \in st.ancestors
            THEN [st EXCEPT !.found = TRUE, !.back = <<v, w>>,
                            !.cycle = cycle_walk(st.parent, v, w, <<w>>)]
          ELSE dfs_undirected_no_skip_edges(g, v, Tail(es), st)

\* dfs(g, v, visited, ancestors, parent) of the undirected cycle detection;
\* st = [visited, ancestors, parent, found, back, cycle]
RECURSIVE dfs_undirected(_, _, _), dfs_undirected_edges(_, _, _, _)
dfs_undirected(g, v, st) ==
  dfs_undirected_edges(g, v, edges(g, v),
    [st EXCEPT !.visited = @ \cup {v}, !.ancestors = @ \cup {v}])

dfs_undirected_edges(g, v, es, st) ==
  IF es = <<>> THEN [st EXCEPT !.ancestors = @ \ {v}, !.found = FALSE]
  ELSE LET w == Head(es).w
           st0 == [st EXCEPT !.parent = parent_entry(@, v)]
       IN IF st0.parent[v] = w
            THEN dfs_undirected_edges(g, v, Tail(es), st0)
          ELSE IF w \notin st0.visited
            THEN LET sub == dfs_undirected(g, w, [st0 EXCEPT !.parent = Put(@, w, v)])
                 IN IF sub.found THEN sub
                    ELSE dfs_undirected_edges(g, v, Tail(es), sub)
          ELSE IF w \in st0.ancestors
            THEN [st0 EXCEPT !.found = TRUE, !.back = <<v, w>>,
                             !.cycle = cycle_walk(st0.parent, v, w, <<w>>)]
          ELSE dfs_undirected_edges(g, v, Tail(es), st0)

\* the loop of the undirected dfs_detect_cycle over g.all_vertices():
\* ancestors and parent are fresh for every root, visited is shared.
RECURSIVE dfs_detect_cycle_undirected_from(_, _, _)
dfs_detect_cycle_undirected_from(g, vs, visited) ==
  IF vs = <<>> THEN [found |-> FALSE, back |-> <<>>, cycle |-> <<>>]
  ELSE IF Head(vs) \notin visited
    THEN LET r == dfs_undirected(g, Head(vs),
                     [visited |-> visited, ancestors |-> {}, parent |-> <<>>,
                      found |-> FALSE, back |-> <<>>, cycle |-> <<>>])
         IN IF r.found
              THEN [found |-> TRUE, back |-> r.back, cycle |-> r.cycle]
              ELSE dfs_detect_cycle_undirected_from(g, Tail(vs), r.visited)
    ELSE dfs_detect_cycle_undirected_from(g, Tail(vs), visited)

\* dfs_detect_cycle (undirected)
dfs_detect_cycle_undirected(g) == dfs_detect_cycle_undirected_from(g, all_vertices(g), {})

DfsDetectCycleUndirected ==
  LET r == dfs_detect_cycle_undirected(CurGraph)
  IN /\ call = NoCall
     /\ call' = [op |-> "dfs_detect_cycle_undirected"]
     /\ ret' = [kind |-> "bool", val |-> r.found, back |-> r.back, cycle |-> r.cycle]
     /\ UNCHANGED <<ufVars, graphVars>>

\* an undirected, unweighted edge: the edge and its reverse, weight 1
AddUndirectedUnitEdge == AddUndirectedWeighted({1}, MaxUEdges)

NextUndirected ==
  \/ GraphAddVertex
  \/ AddUndirectedUnitEdge
  \/ BipartiteCheck
  \/ DfsConnectedComponents
  \/ UfConnectedComponents
  \/ DfsDetectCycleUndirected

SpecUndirected == InitGraph /\ [][NextUndirected]_vars

----------------------------------------------------------------------------
(* Spanning trees: Kruskal and Prim *)

\* Edge::less (the comparator is not strict)
less(a, b) == a.weight <= b.weight

\* Edge::greater (the comparator is not strict)
greater(a, b) == a.weight >= b.weight

\* std::list::sort with a comparator that is not a strict weak ordering: the
\* result is some arrangement of the list that the comparator accepts; the
\* position of edges of equal weight is not determined.

\* all_edges.sort(Edge::less)
sort_less(es) ==
  {[i \in DOMAIN es |-> es[f[i]]] :
     f \in {h \in Perms(DOMAIN es) :
              \A i \in DOMAIN es, j \in DOMAIN es : i < j => less(es[h[i]], es[h[j]])}}

\* all_edges.sort(Edge::greater())
sort_greater(es) ==
  {[i \in DOMAIN es |-> es[f[i]]] :
     f \in {h \in Perms(DOMAIN es) :
              \A i \in DOMAIN es, j \in DOMAIN es : i < j => greater(es[h[i]], es[h[j]])}}

\* the loop of kruskal over the sorted edges accepting every edge
RECURSIVE kruskal_loop_accept_all(_, _)
kruskal_loop_accept_all(es, st) ==
  IF es = <<>> THEN st
  ELSE LET e == Head(es)
       IN kruskal_loop_accept_all(Tail(es),
            [uf |-> union_vertices(st.uf, e.v, e.w),
             mst |-> add_edge(add_edge(st.mst, e), reversed(e))])

\* the loop of kruskal_min_span_tree / kruskal_max_span_tree over the sorted
\* edges; st = [uf, mst]
RECURSIVE kruskal_loop(_, _)
kruskal_loop(es, st) ==
  IF es = <<>> THEN st
  ELSE LET e == Head(es)
           c == is_connected(st.uf.p, e.v, e.w)
           uf1 == [st.uf EXCEPT !.p = c.p]
       IN IF ~c.r
            THEN kruskal_loop(Tail(es),
                   [uf |-> union_vertices(uf1, e.v, e.w),
                    mst |-> add_edge(add_edge(st.mst, e), reversed(e))])
            ELSE kruskal_loop(Tail(es), [st EXCEPT !.uf = uf1])

\* Kruskal on an already sorted list of edges
kruskal_on(g, sorted) ==
  kruskal_loop(sorted,
    [uf |-> uf_with_vertices(EmptyUF, all_vertices(g)),
     mst |-> graph_with_vertices(EmptyGraph, all_vertices(g))]).mst

\* kruskal_min_span_tree: the trees it can return
kruskal_min_span_tree(g) ==
  {kruskal_on(g, sorted) : sorted \in sort_less(dedup_edges(all_edges(g)))}

\* kruskal_max_span_tree: the trees it can return
kruskal_max_span_tree(g) ==
  {kruskal_on(g, sorted) : sorted \in sort_greater(dedup_edges(all_edges(g)))}

\* pq.push(e) for every edge of a list
RECURSIVE push_all(_, _)
push_all(pq, es) ==
  IF es = <<>> THEN pq ELSE push_all(pq (+) SetToBag({Head(es)}), Tail(es))

\* pq.top(): with the non-strict comparator any edge that no other edge of the
\* queue precedes may be on top
top_candidates(pq) ==
  {e \in BagToSet(pq) : \A o \in BagToSet(pq) : greater(o, e)}

\* one iteration of the while loop of prim_min_span_tree popping e;
\* c = [pq, visited, mst]
prim_pop(g, c, e) ==
  LET pq1 == c.pq (-) SetToBag({e})
  IN IF e.w \notin c.visited
       THEN [pq |-> push_all(pq1, edges(g, e.w)),
             visited |-> c.visited \cup {e.w},
             mst |-> add_edge(add_edge(c.mst, e), reversed(e))]
       ELSE [c EXCEPT !.pq = pq1]

\* the while loop of prim_min_span_tree, run on every configuration the
\* choices of pq.top() can lead to
RECURSIVE prim_loop(_, _)
prim_loop(g, cs) ==
  IF \A c \in cs : c.pq = EmptyBag THEN {c.mst : c \in cs}
  ELSE prim_loop(g,
         UNION {IF c.pq = EmptyBag THEN {c}
                ELSE {prim_pop(g, c, e) : e \in top_candidates(c.pq)} : c \in cs})

\* prim_min_span_tree building its result in a Graph without the vertices of g
prim_min_span_tree_no_vertices(g) ==
  LET src == Head(all_vertices(g))
  IN prim_loop(g, {[pq |-> push_all(EmptyBag, edges(g, src)),
                    visited |-> {src},
                    mst |-> EmptyGraph]})

\* prim_min_span_tree: the trees it can return (assert(!vertices.empty()))
prim_min_span_tree(g) ==
  LET src == Head(all_vertices(g))
  IN prim_loop(g, {[pq |-> push_all(EmptyBag, edges(g, src)),
                    visited |-> {src},
                    mst |-> graph_with_vertices(EmptyGraph, all_vertices(g))]})

KruskalMin ==
  \E mst \in kruskal_min_span_tree(CurGraph) :
    /\ call = NoCall
    /\ call' = [op |-> "kruskal_min_span_tree"]
    /\ ret' = [kind |-> "graph", val |-> mst]
    /\ UNCHANGED <<ufVars, graphVars>>

KruskalMax ==
  \E mst \in kruskal_max_span_tree(CurGraph) :
    /\ call = NoCall
    /\ call' = [op |-> "kruskal_max_span_tree"]
    /\ ret' = [kind |-> "graph", val |-> mst]
    /\ UNCHANGED <<ufVars, graphVars>>

PrimMin ==
  /\ call = NoCall
  /\ vertices # <<>>
  /\ \E mst \in prim_min_span_tree(CurGraph) :
       /\ call' = [op |-> "prim_min_span_tree"]
       /\ ret' = [kind |-> "graph", val |-> mst]
       /\ UNCHANGED <<ufVars, graphVars>>

\* an undirected weighted edge is inserted as the edge and its reverse
AddUndirectedEdge == AddUndirectedWeighted(1 .. MaxWeight, MaxUEdges)

NextMst ==
  \/ AddUndirectedEdge
  \/ KruskalMin
  \/ KruskalMax
  \/ PrimMin

SpecMst == InitGraph /\ [][NextMst]_vars

----------------------------------------------------------------------------
(* Shortest paths: Dijkstra and Bellman-Ford *)

INT32_MAX == 2147483647

\* print_path(src, dst, parent): the vertices pushed while walking the parent
\* mapping from dst back to src (std::unordered_map::at throws on a vertex
\* without an entry); steps bounds the walk.
RECURSIVE print_path(_, _, _, _, _)
print_path(src, x, parent, acc, steps) ==
  IF x = src THEN <<src>> \o acc
  ELSE IF x \notin DOMAIN parent THEN <<"out_of_range">>
  ELSE IF steps = 0 THEN <<"no_end">>
  ELSE print_path(src, parent[x], parent, <<x>> \o acc, steps - 1)

\* how print_path ends: "returns" when the walk from x along parent.at arrives
\* at src, "out_of_range" when a vertex of the walk has no entry (parent.at
\* throws), "no_end" when the walk comes back to a vertex without meeting src
RECURSIVE print_path_outcome(_, _, _, _)
print_path_outcome(src, x, parent, steps) ==
  IF x = src THEN "returns"
  ELSE IF x \notin DOMAIN parent THEN "out_of_range"
  ELSE IF steps = 0 THEN "no_end"
  ELSE print_path_outcome(src, parent[x], parent, steps - 1)

\* q.push(e.w) for every edge of g.edges(v) whose destination is not visited
RECURSIVE bfs_push(_, _, _)
bfs_push(es, visited, q) ==
  IF es = <<>> THEN q
  ELSE IF Head(es).w \notin visited
    THEN bfs_push(Tail(es), visited, Append(q, Head(es).w))
    ELSE bfs_push(Tail(es), visited, q)

\* the for loop of bfs_sssp over the lvl_cnt vertices of one level and the
\* while loop around it; st = [q, visited, parent].  The parent mapping is
\* declared and handed to print_path, and no statement of bfs_sssp writes it.
\* A call that print_path leaves by std::out_of_range returns nothing.
RECURSIVE bfs_level(_, _, _, _, _), bfs_loop(_, _, _, _)
bfs_level(g, src, dst, st, lvl_cnt) ==
  IF lvl_cnt = 0 THEN bfs_loop(g, src, dst, st)
  ELSE LET v == Head(st.q)
           visited == st.visited \cup {v}
       IN IF v = dst
            THEN LET outcome == print_path_outcome(src, dst, st.parent, Len(g.vertices))
                 IN IF outcome = "returns"
                      THEN [kind |-> "bool", val |-> TRUE, parent |-> st.parent,
                            path |-> print_path(src, dst, st.parent, <<>>, Len(g.vertices))]
                      ELSE [kind |-> outcome, parent |-> st.parent]
            ELSE bfs_level(g, src, dst,
                   [q |-> bfs_push(edges(g, v), visited, Tail(st.q)),
                    visited |-> visited,
                    parent |-> st.parent],
                   lvl_cnt - 1)

bfs_loop(g, src, dst, st) ==
  IF st.q = <<>>
    THEN [kind |-> "bool", val |-> FALSE, parent |-> st.parent, path |-> <<>>]
    ELSE bfs_level(g, src, dst, st, Len(st.q))

\* bfs_sssp
bfs_sssp(g, src, dst) ==
  bfs_loop(g, src, dst, [q |-> <<src>>, visited |-> {}, parent |-> <<>>])

BfsSssp ==
  /\ call = NoCall
  /\ \E src \in Range(vertices), dst \in Range(vertices) :
       /\ call' = [op |-> "bfs_sssp", src |-> src, dst |-> dst]
       /\ ret' = bfs_sssp(CurGraph, src, dst)
  /\ UNCHANGED <<ufVars, graphVars>>

NextBfs == AddEdge \/ BfsSssp

SpecBfs == InitGraph /\ [][NextBfs]_vars

\* dist_to[v] = init for every vertex of the graph
RECURSIVE init_dist(_, _, _)
init_dist(vs, init, dist_to) ==
  IF vs = <<>> THEN dist_to
  ELSE init_dist(Tail(vs), init, Put(dist_to, Head(vs), init))

\* the comparator with the test on the distances turned around
pair_cmp_reversed(a, b) ==
  IF a[2] # b[2] THEN a[2] < b[2] ELSE a[1] >= b[1]

\* the comparator of the priority queue of dijkstra_sssp: a is below b
pair_cmp(a, b) ==
  IF a[2] # b[2] THEN a[2] > b[2] ELSE a[1] >= b[1]

\* pq.top(): the pair that every other pair of the queue is below (pairs that
\* tie in both fields are the same pair)
pair_top(pq) ==
  CHOOSE a \in BagToSet(pq) : \A b \in BagToSet(pq) : pair_cmp(b, a)

\* the relaxation with the test 'dist_to[e.w] >= dist_to_v + e.weight': a push
\* that follows no decrease
RECURSIVE dijkstra_relax_non_strict(_, _, _, _)
dijkstra_relax_non_strict(v, dist_to_v, es, st) ==
  IF es = <<>> THEN st
  ELSE LET e == Head(es)
       IN IF st.dist_to[e.w] >= dist_to_v + e.weight
            THEN dijkstra_relax_non_strict(v, dist_to_v, Tail(es),
                   [dist_to |-> [st.dist_to EXCEPT ![e.w] = dist_to_v + e.weight],
                    parent |-> Put(st.parent, e.w, v),
                    pq |-> st.pq (+) SetToBag({<<e.w, dist_to_v + e.weight>>})])
            ELSE dijkstra_relax_non_strict(v, dist_to_v, Tail(es), st)

\* the relaxation loop of dijkstra_sssp over g.edges(v); st = [dist_to, parent, pq]
RECURSIVE dijkstra_relax(_, _, _, _)
dijkstra_relax(v, dist_to_v, es, st) ==
  IF es = <<>> THEN st
  ELSE LET e == Head(es)
       IN IF st.dist_to[e.w] > dist_to_v + e.weight
            THEN dijkstra_relax(v, dist_to_v, Tail(es),
                   [dist_to |-> [st.dist_to EXCEPT ![e.w] = dist_to_v + e.weight],
                    parent |-> Put(st.parent, e.w, v),
                    pq |-> st.pq (+) SetToBag({<<e.w, dist_to_v + e.weight>>})])
            ELSE dijkstra_relax(v, dist_to_v, Tail(es), st)

\* while (!pq.empty()) of dijkstra_sssp
RECURSIVE dijkstra_loop(_, _, _, _)
dijkstra_loop(g, src, dst, st) ==
  IF st.pq = EmptyBag
    THEN [val |-> FALSE, dist |-> INT32_MAX, dist_to |-> st.dist_to,
          parent |-> st.parent, path |-> <<>>]
    ELSE LET top == pair_top(st.pq)
             v == top[1]
             dist_to_v == top[2]
             st1 == [st EXCEPT !.pq = @ (-) SetToBag({top})]
         IN IF v = dst
              THEN [val |-> TRUE, dist |-> dist_to_v, dist_to |-> st.dist_to,
                    parent |-> st.parent,
                    path |-> print_path(src, dst, st.parent, <<>>, Len(g.vertices))]
              ELSE dijkstra_loop(g, src, dst,
                     dijkstra_relax(v, dist_to_v, edges(g, v), st1))

\* dijkstra_sssp: the value returned, with the distance of the popped
\* destination, the tables dist_to and parent at the return and the path
\* handed to the printer
dijkstra_sssp(g, src, dst) ==
  LET dist_to == Put(init_dist(all_vertices(g), INT32_MAX, <<>>), src, 0)
  IN dijkstra_loop(g, src, dst,
       [dist_to |-> dist_to,
        parent |-> Put(<<>>, src, -1),
        pq |-> SetToBag({<<src, dist_to[src]>>})])

\* the locals of dijkstra_sssp when the while loop is entered
dijkstra_locals(g, src) ==
  LET dist_to == Put(init_dist(all_vertices(g), INT32_MAX, <<>>), src, 0)
  IN [dist_to |-> dist_to,
      parent |-> Put(<<>>, src, -1),
      pq |-> SetToBag({<<src, dist_to[src]>>})]

\* one pass of relaxation over g.edges(v); st = [dist_to, parent]
RECURSIVE bf_relax_edges(_, _, _)
bf_relax_edges(v, es, st) ==
  IF es = <<>> THEN st
  ELSE LET e == Head(es)
       IN IF st.dist_to[e.w] > st.dist_to[v] + e.weight
            THEN bf_relax_edges(v, Tail(es),
                   [dist_to |-> [st.dist_to EXCEPT ![e.w] = st.dist_to[v] + e.weight],
                    parent |-> Put(st.parent, e.w, v)])
            ELSE bf_relax_edges(v, Tail(es), st)

\* for (v : g.all_vertices()) relax every edge of v
RECURSIVE bf_pass(_, _, _)
bf_pass(g, vs, st) ==
  IF vs = <<>> THEN st
  ELSE bf_pass(g, Tail(vs), bf_relax_edges(Head(vs), edges(g, Head(vs)), st))

\* the passes i = 0 .. |V| - 2
RECURSIVE bf_passes(_, _, _)
bf_passes(g, n, st) ==
  IF n <= 0 THEN st ELSE bf_passes(g, n - 1, bf_pass(g, all_vertices(g), st))

\* the final scan of bellman_ford_sssp: some edge can still be relaxed
bf_improvable(g, dist_to) ==
  \E e \in Range(all_edges(g)) : dist_to[e.w] > dist_to[e.v] + e.weight

\* bellman_ford_sssp without the final scan for an improvable edge
bellman_ford_no_scan(g, src, dst) ==
  LET dist_to == Put(init_dist(all_vertices(g), INT32_MAX \div 2, <<>>), src, 0)
      st == bf_passes(g, Len(all_vertices(g)) - 1,
                      [dist_to |-> dist_to, parent |-> Put(<<>>, src, -1)])
  IN IF st.dist_to[dst] = INT32_MAX \div 2
       THEN [val |-> FALSE, site |-> "unreachable", dist_to |-> st.dist_to,
             parent |-> st.parent, path |-> <<>>]
     ELSE LET outcome == print_path_outcome(src, dst, st.parent, Len(g.vertices))
          IN IF outcome = "returns"
               THEN [val |-> TRUE, site |-> "end", dist_to |-> st.dist_to,
                     parent |-> st.parent,
                     path |-> print_path(src, dst, st.parent, <<>>, Len(g.vertices))]
               ELSE [site |-> outcome, dist_to |-> st.dist_to, parent |-> st.parent]

\* what bellman_ford_sssp returns when dst cannot be reached from src
bf_unreachable_result == FALSE

\* bellman_ford_sssp: the value returned and the return statement taken, with
\* the tables dist_to and parent at the return; a call that print_path does
\* not return from has no value (site is how print_path ended)
bellman_ford_sssp(g, src, dst) ==
  LET dist_to == Put(init_dist(all_vertices(g), INT32_MAX \div 2, <<>>), src, 0)
      st == bf_passes(g, Len(all_vertices(g)) - 1,
                      [dist_to |-> dist_to, parent |-> Put(<<>>, src, -1)])
  IN IF st.dist_to[dst] = INT32_MAX \div 2
       THEN [val |-> bf_unreachable_result, site |-> "unreachable",
             dist_to |-> st.dist_to, parent |-> st.parent, path |-> <<>>]
     ELSE IF bf_improvable(g, st.dist_to)
       THEN [val |-> FALSE, site |-> "improvable", dist_to |-> st.dist_to,
             parent |-> st.parent, path |-> <<>>]
     ELSE LET outcome == print_path_outcome(src, dst, st.parent, Len(g.vertices))
          IN IF outcome = "returns"
               THEN [val |-> TRUE, site |-> "end", dist_to |-> st.dist_to,
                     parent |-> st.parent,
                     path |-> print_path(src, dst, st.parent, <<>>, Len(g.vertices))]
               ELSE [site |-> outcome, dist_to |-> st.dist_to, parent |-> st.parent]

\* constexpr int MAX_DIST = INT32_MAX / 2
MAX_DIST == INT32_MAX \div 2

\* the tables dist and last of floyd_warshall_apsp are kept as maps over the
\* pairs <<i, j>>; st = [dist, last, neg].  Reading last[k][j] with operator[]
\* creates the entry with the value 0 when it is missing.
fw_last_get(last, k, j) == IF <<k, j>> \in DOMAIN last THEN last[<<k, j>>] ELSE 0

\* dist[e.v][e.w] = e.weight; last[e.v][e.w] = e.v for every edge
RECURSIVE fw_edges(_, _)
fw_edges(es, st) ==
  IF es = <<>> THEN st
  ELSE LET e == Head(es)
       IN fw_edges(Tail(es),
            [st EXCEPT !.dist = Put(@, <<e.v, e.w>>, e.weight),
                       !.last = Put(@, <<e.v, e.w>>, e.v)])

\* the body of the innermost loop for one (k, i, j)
fw_step(k, i, j, st) ==
  LET st1 == IF st.dist[<<i, j>>] > st.dist[<<i, k>>] + st.dist[<<k, j>>]
               THEN [st EXCEPT
                       !.dist = Put(@, <<i, j>>, st.dist[<<i, k>>] + st.dist[<<k, j>>]),
                       !.last = Put(Put(@, <<k, j>>, fw_last_get(st.last, k, j)),
                                    <<i, j>>, fw_last_get(st.last, k, j))]
               ELSE st
  IN [st1 EXCEPT !.neg = st1.dist[<<i, i>>] < 0]

\* for (j : g.all_vertices()), left at once when dist[i][i] < 0
RECURSIVE fw_loop_j(_, _, _, _)
fw_loop_j(k, i, js, st) ==
  IF js = <<>> \/ st.neg THEN st
  ELSE fw_loop_j(k, i, Tail(js), fw_step(k, i, Head(js), st))

\* for (i : g.all_vertices())
RECURSIVE fw_loop_i(_, _, _, _)
fw_loop_i(g, k, is, st) ==
  IF is = <<>> \/ st.neg THEN st
  ELSE fw_loop_i(g, k, Tail(is), fw_loop_j(k, Head(is), all_vertices(g), st))

\* for (k : g.all_vertices())
RECURSIVE fw_loop_k(_, _, _)
fw_loop_k(g, ks, st) ==
  IF ks = <<>> \/ st.neg THEN st
  ELSE fw_loop_k(g, Tail(ks), fw_loop_i(g, Head(ks), all_vertices(g), st))

\* print_path(v, w, last): how it ends ("returns", "out_of_range" when
\* last.at(v).at(w) finds no entry, "no_end" when the recursion does not stop)
RECURSIVE fw_print_path(_, _, _, _)
fw_print_path(v, w, last, steps) ==
  IF <<v, w>> \notin DOMAIN last THEN "out_of_range"
  ELSE LET k == last[<<v, w>>]
       IN IF k = v THEN "returns"
          ELSE IF steps = 0 THEN "no_end"
          ELSE fw_print_path(v, k, last, steps - 1)

\* print_all_paths: the first pair whose print_path does not return ends it
RECURSIVE print_all_paths(_, _, _)
print_all_paths(pairs, last, steps) ==
  IF pairs = <<>> THEN "returns"
  ELSE LET o == fw_print_path(Head(pairs)[1], Head(pairs)[2], last, steps)
       IN IF o = "returns" THEN print_all_paths(Tail(pairs), last, steps) ELSE o

\* the pairs (v, w) in the order of the two nested loops over g.all_vertices()
vertex_pairs(vs) ==
  [n \in 1 .. (Len(vs) * Len(vs)) |->
     <<vs[((n - 1) \div Len(vs)) + 1], vs[((n - 1) % Len(vs)) + 1]>>]

\* floyd_warshall_apsp: the value returned with the tables dist and last; a
\* call that print_all_paths does not return from has no value
floyd_warshall_apsp(g) ==
  LET V == Range(all_vertices(g))
      init == [dist |-> [x \in V \X V |-> IF x[1] = x[2] THEN 0 ELSE MAX_DIST],
               last |-> [x \in {<<v, v>> : v \in V} |-> x[1]],
               neg |-> FALSE]
      st == fw_loop_k(g, all_vertices(g), fw_edges(all_edges(g), init))
  IN IF st.neg
       THEN [kind |-> "bool", val |-> FALSE, dist |-> st.dist, last |-> st.last]
     ELSE LET o == print_all_paths(vertex_pairs(all_vertices(g)), st.last,
                                   Len(all_vertices(g)))
          IN IF o = "returns"
               THEN [kind |-> "bool", val |-> TRUE, dist |-> st.dist, last |-> st.last]
               ELSE [kind |-> o, dist |-> st.dist, last |-> st.last]

FloydWarshall ==
  /\ call = NoCall
  /\ call' = [op |-> "floyd_warshall_apsp"]
  /\ ret' = floyd_warshall_apsp(CurGraph)
  /\ UNCHANGED <<ufVars, graphVars>>

Dijkstra ==
  /\ call = NoCall
  /\ \E src \in Range(vertices), dst \in Range(vertices) :
       LET r == dijkstra_sssp(CurGraph, src, dst)
       IN /\ call' = [op |-> "dijkstra_sssp", src |-> src, dst |-> dst]
          /\ ret' = [kind |-> "bool", val |-> r.val, dist |-> r.dist,
                     dist_to |-> r.dist_to, parent |-> r.parent, path |-> r.path]
  /\ UNCHANGED <<ufVars, graphVars>>

BellmanFord ==
  /\ call = NoCall
  /\ \E src \in Range(vertices), dst \in Range(vertices) :
       LET r == bellman_ford_sssp(CurGraph, src, dst)
       IN /\ call' = [op |-> "bellman_ford_sssp", src |-> src, dst |-> dst]
          /\ ret' = [kind |-> IF r.site \in {"out_of_range", "no_end"}
                                 THEN r.site ELSE "bool"] @@ r
  /\ UNCHANGED <<ufVars, graphVars>>

\* edges of non-negative weight
\* dijkstra_sssp run one loop iteration at a time: the call record holds the
\* locals dist_to, parent and pq, and ret is NoRet until the function returns
DijkstraCall ==
  /\ call = NoCall
  /\ \E src \in Range(vertices), dst \in Range(vertices) :
       call' = [op |-> "dijkstra_sssp", src |-> src, dst |-> dst]
                 @@ dijkstra_locals(CurGraph, src)
  /\ UNCHANGED <<ret, ufVars, graphVars>>

\* one evaluation of 'while (!pq.empty())' and, when it holds, of the body
DijkstraIterate ==
  /\ call.op = "dijkstra_sssp"
  /\ ret = NoRet
  /\ IF call.pq = EmptyBag
       THEN /\ ret' = [kind |-> "bool", val |-> FALSE]
            /\ call' = call
       ELSE LET top == pair_top(call.pq)
                v == top[1]
                dist_to_v == top[2]
                st1 == [dist_to |-> call.dist_to, parent |-> call.parent,
                        pq |-> call.pq (-) SetToBag({top})]
            IN IF v = call.dst
                 THEN LET out == print_path_outcome(call.src, call.dst,
                                   call.parent, Len(vertices))
                      IN /\ ret' = [kind |-> IF out = "returns" THEN "bool" ELSE out,
                                    val |-> TRUE]
                         /\ call' = [call EXCEPT !.pq = st1.pq]
                 ELSE LET st2 == dijkstra_relax(v, dist_to_v, edges(CurGraph, v), st1)
                      IN /\ call' = [call EXCEPT !.dist_to = st2.dist_to,
                                                 !.parent = st2.parent,
                                                 !.pq = st2.pq]
                         /\ ret' = ret
  /\ UNCHANGED <<ufVars, graphVars>>

AddNonNegEdge == AddEdgeWeighted(0 .. MaxWeight, MaxEdges)

\* edges of negative, zero and positive weight
AddSignedEdge == AddEdgeWeighted((0 - 1) .. 1, MaxEdges)

NextSp == AddNonNegEdge \/ Dijkstra

SpecSp == InitGraph /\ [][NextSp]_vars

NextSpRun == AddNonNegEdge \/ DijkstraCall \/ DijkstraIterate

\* a call that has started keeps executing its loop
SpecSpRun == InitGraph /\ [][NextSpRun]_vars /\ WF_vars(DijkstraIterate)

NextApsp == AddSignedEdge \/ FloydWarshall

SpecApsp == InitGraph /\ [][NextApsp]_vars

NextBf == AddSignedEdge \/ BellmanFord

SpecBf == InitGraph /\ [][NextBf]_vars

----------------------------------------------------------------------------
(* Claims about the union-find (checked under SpecUF) *)

\* the number of disjoint sets of the forest pm
NumSets(pm) == Cardinality({find(pm, v).r : v \in DOMAIN pm})

\* C1: after any add_vertex calls on distinct ids and any union_vertices, find
\* and is_connected calls on registered ids, is_connected(v, w) is true exactly
\* when (v, w) is in the reflexive, symmetric, transitive closure of the pairs
\* passed to union_vertices so far (both for the call just made and for every
\* call that could be made now).
C1_IsConnectedIsClosure ==
  /\ \A v \in DOMAIN p, w \in DOMAIN p :
       is_connected(p, v, w).r <=> (<<v, w>> \in linked)
  /\ call.op = "is_connected" => (ret.val <=> (<<call.v, call.w>> \in linked))

\* an is_connected call answered true for two different ids that were never
\* linked directly in the forest, while another id is still apart.
C1_Witness ==
  /\ call.op = "is_connected"
  /\ ret.val
  /\ call.v # call.w
  /\ p[call.v] # call.w /\ p[call.w] # call.v
  /\ \E x \in DOMAIN p : <<x, call.v>> \notin linked

\* C2: get_cc_cnt() always equals the number of disjoint sets; a union_vertices
\* call on two distinct sets decreases it by exactly one, and a union_vertices
\* call inside one set, a find and an is_connected leave it unchanged.
C2_CcCntStep ==
  /\ call'.op = "union_vertices" =>
       get_cc_cnt([p |-> p', rank |-> rank', cc_cnt |-> cc_cnt']) =
         IF is_connected(p, call'.v, call'.w).r THEN cc_cnt ELSE cc_cnt - 1
  /\ call'.op \in {"find", "is_connected"} => cc_cnt' = cc_cnt

C2_CcCntIsNumSets ==
  /\ [](get_cc_cnt(CurUF) = NumSets(p))
  /\ [][C2_CcCntStep]_vars

\* a union_vertices call made inside one set after two merging unions.
C2_Witness ==
  /\ call.op = "union_vertices"
  /\ <<call.v, call.w>> \in linked
  /\ call.v # call.w
  /\ Cardinality(DOMAIN p) >= 3
  /\ cc_cnt = Cardinality(DOMAIN p) - 2

\* the parent chain of v in the forest pm: v, p[v], p[p[v]], ... up to a root
RECURSIVE ParentChain(_, _)
ParentChain(pm, v) ==
  IF pm[v] = v THEN {v} ELSE {v} \cup ParentChain(pm, pm[v])

RootOf(pm, v) == CHOOSE r \in ParentChain(pm, v) : pm[r] = r

\* the partition into sets, as the pairs of ids with the same root
SameSet(pm) ==
  {pr \in (DOMAIN pm) \X (DOMAIN pm) : RootOf(pm, pr[1]) = RootOf(pm, pr[2])}

C23_FindStep ==
  call'.op = "find" =>
    LET v == call'.v
        r == ret'.val
        chain == ParentChain(p, v)
    IN /\ Cardinality({x \in chain : p[x] = x}) = 1
       /\ r \in chain
       /\ p[r] = r
       /\ DOMAIN p' = DOMAIN p
       /\ \A x \in chain : p'[x] = r
       /\ \A x \in DOMAIN p \ chain : p'[x] = p[x]
       /\ SameSet(p') = SameSet(p)

\* C23: on a UF built by add_vertex and union_vertices on registered ids,
\* find(v) returns the root r of v's tree (the one node on v's parent chain
\* with p[r] = r); after the call every node that was on the chain from v to r
\* has parent r, every other node keeps its parent, and the partition into
\* sets is the same.
C23_FindCompresses == [][C23_FindStep]_vars

\* a find that walked over at least three nodes and moved v under the root
C23_Witness ==
  /\ call.op = "find"
  /\ Len(ret.ids) >= 3
  /\ ret.val = ret.ids[Len(ret.ids)]
  /\ p[call.v] = ret.val

\* the call c references an id that the parent map pm does not hold
UnknownVertex(c, pm) ==
  \/ c.op = "find" /\ c.v \notin DOMAIN pm
  \/ c.op \in {"union_vertices", "is_connected"}
       /\ (c.v \notin DOMAIN pm \/ c.w \notin DOMAIN pm)

C22_UnknownVertexStep ==
  UnknownVertex(call', p) =>
    /\ ret'.kind = "UnknownVertex"
    /\ p' = p
    /\ rank' = rank
    /\ cc_cnt' = cc_cnt

\* C22: a find, union_vertices or is_connected that references an id never
\* registered with add_vertex fails fast with an error and leaves the parent
\* map, the rank map and the component count unchanged.
C22_UnknownVertexFailsFast == [][C22_UnknownVertexStep]_vars

----------------------------------------------------------------------------
(* Claims about the Graph store (checked under SpecGraph) *)

\* s is a prefix of t
IsPrefix(s, t) == Len(s) <= Len(t) /\ \A i \in DOMAIN s : s[i] = t[i]

C14_GraphState ==
  /\ \A e \in Range(all_edges(CurGraph)) :
       e.v \in Range(vertices) /\ e.w \in Range(vertices)
  /\ DOMAIN adj_list \subseteq Range(vertices)
  /\ \A i \in DOMAIN vertices, j \in DOMAIN vertices :
       vertices[i] = vertices[j] => i = j

C14_GraphStep == IsPrefix(vertices, vertices')

\* C14: after any sequence of add_vertex and add_edge calls both endpoints of
\* every stored edge are in the vertex list, every key of the adjacency map is
\* in the vertex list, no vertex id appears twice in the vertex list, and a
\* call leaves the vertices registered before it where they were (the list
\* only grows at its end).
C14_GraphInvariant ==
  /\ []C14_GraphState
  /\ [][C14_GraphStep]_vars

\* a vertex registered by add_vertex that has no edge, next to vertices that
\* add_edge registered in the order destination-before-source of their ids.
C14_Witness ==
  /\ Len(vertices) = 3
  /\ NumEdges(CurGraph) >= 2
  /\ \E v \in Range(vertices) :
       \A e \in Range(all_edges(CurGraph)) : e.v # v /\ e.w # v
  /\ \E i \in DOMAIN vertices, j \in DOMAIN vertices : i < j /\ vertices[i] > vertices[j]

\* C15: all_edges() returns a deduplicated view: no two edges of the returned
\* list have the same unordered endpoint pair.
C15_AllEdgesDeduplicated ==
  \A i \in DOMAIN all_edges(CurGraph), j \in DOMAIN all_edges(CurGraph) :
    i # j => ~equal(all_edges(CurGraph)[i], all_edges(CurGraph)[j])

----------------------------------------------------------------------------
(* Claims about directed graphs (checked under SpecDigraph) *)

\* g contains a directed cycle (a self-loop included)
HasDirectedCycle(g) == \E v \in Range(g.vertices) : <<v, v>> \in PathPairs(g)

\* the group ids of cc whose list holds v
GroupsOf(cc, v) == {id \in DOMAIN cc : v \in Range(cc[id])}

\* C3: kosaraju_scc(g) returns groups that partition the vertex set such that
\* u and v are in the same group iff there is a path u -> v and a path v -> u.
C3_KosarajuIsScc ==
  call.op = "kosaraju_scc" =>
    /\ \A v \in Range(vertices) : Cardinality(GroupsOf(ret.val, v)) = 1
    /\ \A u \in Range(vertices), v \in Range(vertices) :
         (GroupsOf(ret.val, u) \cap GroupsOf(ret.val, v) # {})
           <=> (Reaches(CurGraph, u, v) /\ Reaches(CurGraph, v, u))

\* s is a closed walk of g: it starts and ends at the same vertex and every
\* step follows an edge
IsClosedWalk(g, s) ==
  /\ Len(s) >= 2
  /\ s[1] = s[Len(s)]
  /\ \A i \in 1 .. (Len(s) - 1) : <<s[i], s[i + 1]>> \in EdgePairs(g)

\* C9: the directed dfs_detect_cycle(g) returns true iff g contains a directed
\* cycle (self-loops included); the edge it reports on leads to a vertex from
\* which the edge's source is reached (an ancestor), so the cycle it prints is
\* a closed walk of g.
C9_DirectedCycleIff ==
  call.op = "dfs_detect_cycle" =>
    /\ ret.val <=> HasDirectedCycle(CurGraph)
    /\ ret.val =>
         /\ ret.back \in EdgePairs(CurGraph)
         /\ Reaches(CurGraph, ret.back[2], ret.back[1])
         /\ IsClosedWalk(CurGraph, ret.cycle)

\* dfs_detect_cycle answered false on a graph in which some vertex is entered
\* by two different vertices, so that a forward or cross edge was examined.
C9_Witness ==
  /\ call.op = "dfs_detect_cycle"
  /\ ~ret.val
  /\ \E a \in EdgePairs(CurGraph), b \in EdgePairs(CurGraph) : a[2] = b[2] /\ a[1] # b[1]

\* C16: uf_detect_cycle of the directed-cycle module, applied to a directed
\* graph, returns true when the graph contains a directed cycle and false when
\* it contains none.
C16_UfDirectedCycleIff ==
  call.op = "uf_detect_cycle" => (ret.val <=> HasDirectedCycle(CurGraph))

\* s holds every vertex of g exactly once and every edge of g goes forward in s
IsTopologicalOrder(g, s) ==
  /\ Len(s) = Len(g.vertices)
  /\ Range(s) = Range(g.vertices)
  /\ \A e \in EdgePairs(g) :
       \E i \in DOMAIN s, j \in DOMAIN s : i < j /\ s[i] = e[1] /\ s[j] = e[2]

\* C10: for every acyclic directed graph both dfs_topological_sorting and
\* bfs_topological_sorting return a sequence holding every vertex exactly once
\* in which every edge's source precedes its destination; for 0->1, 1->2 the
\* result is [0,1,2].
C10_TopologicalOrder ==
  (call.op \in {"dfs_topological_sorting", "bfs_topological_sorting"}
     /\ ~HasDirectedCycle(CurGraph)) =>
    /\ IsTopologicalOrder(CurGraph, ret.val)
    /\ (EdgePairs(CurGraph) = {<<0, 1>>, <<1, 2>>} /\ Range(vertices) = {0, 1, 2})
         => ret.val = <<0, 1, 2>>

\* Kahn's algorithm ran on an acyclic graph with a vertex of indegree two.
C10_Witness ==
  /\ call.op = "bfs_topological_sorting"
  /\ ~HasDirectedCycle(CurGraph)
  /\ Len(ret.val) >= 3
  /\ \E a \in EdgePairs(CurGraph), b \in EdgePairs(CurGraph) : a[2] = b[2] /\ a[1] # b[1]

----------------------------------------------------------------------------
(* Claims about spanning trees (checked under SpecMst) *)

\* g is connected: it has a vertex and every vertex reaches every other
Connected(g) ==
  /\ g.vertices # <<>>
  /\ \A a \in Range(g.vertices), b \in Range(g.vertices) : Reaches(g, a, b)

\* the edges of g come in pairs (u,v,w), (v,u,w)
Symmetric(g) ==
  \A e \in Range(all_edges(g)) : reversed(e) \in Range(all_edges(g))

\* the undirected edges of g: one representative (v <= w) of each stored pair
UndirectedEdges(g) == {e \in Range(all_edges(g)) : e.v <= e.w}

\* every undirected edge of t is a bridge: without it its endpoints fall apart
Acyclic(t) ==
  \A e \in UndirectedEdges(t) :
    /\ e.v # e.w
    /\ <<e.v, e.w>> \notin
         TransClose(EdgePairs(t) \ {<<e.v, e.w>>, <<e.w, e.v>>})

\* t is a spanning tree of g stored as symmetric pairs
IsSpanningTree(g, t) ==
  /\ Range(t.vertices) = Range(g.vertices)
  /\ Len(t.vertices) = Len(g.vertices)
  /\ Range(all_edges(t)) \subseteq Range(all_edges(g))
  /\ Symmetric(t)
  /\ NumEdges(t) = 2 * (Len(g.vertices) - 1)
  /\ Cardinality(UndirectedEdges(t)) = Len(g.vertices) - 1
  /\ Acyclic(t)
  /\ Connected(t)

\* C4: for every connected graph whose edges come in symmetric pairs, the
\* graphs returned by kruskal_min_span_tree, kruskal_max_span_tree and
\* prim_min_span_tree contain every vertex of g and exactly |V|-1 undirected
\* edges (each stored as an edge and its reverse), all of them edges of g, and
\* are acyclic and connected.
C4_SpanningTree ==
  (call.op \in {"kruskal_min_span_tree", "kruskal_max_span_tree", "prim_min_span_tree"}
     /\ Connected(CurGraph) /\ Symmetric(CurGraph)) =>
    IsSpanningTree(CurGraph, ret.val)

\* Kruskal returned a tree of a connected graph on three vertices that has
\* three different undirected edges, one of which had to be rejected.
C4_Witness ==
  /\ call.op = "kruskal_min_span_tree"
  /\ Connected(CurGraph)
  /\ Len(vertices) = 3
  /\ Cardinality({<<e.v, e.w>> : e \in UndirectedEdges(CurGraph)}) = 3
  /\ \A e \in UndirectedEdges(CurGraph) : e.v # e.w

\* total weight of a graph stored as symmetric pairs
RECURSIVE WeightSum(_)
WeightSum(es) == IF es = <<>> THEN 0 ELSE Head(es).weight + WeightSum(Tail(es))

TotalWeight(t) == WeightSum(all_edges(t)) \div 2

\* the sets of undirected edges of g that form a spanning tree of g
SpanningTrees(g) ==
  {T \in SUBSET UndirectedEdges(g) :
     /\ Cardinality(T) = Len(g.vertices) - 1
     /\ \A a \in Range(g.vertices), b \in Range(g.vertices) :
          a = b \/ <<a, b>> \in TransClose({<<e.v, e.w>> : e \in T} \cup {<<e.w, e.v>> : e \in T})}

RECURSIVE SetWeight(_)
SetWeight(T) ==
  IF T = {} THEN 0
  ELSE LET e == CHOOSE x \in T : TRUE IN e.weight + SetWeight(T \ {e})

\* C5: for every connected graph whose edges come in symmetric pairs, the
\* total weight of the tree returned by kruskal_min_span_tree equals that of the
\* tree returned by prim_min_span_tree, and both equal the minimum total
\* weight over all spanning trees of g.
C5_MinimumWeight ==
  (call.op \in {"kruskal_min_span_tree", "prim_min_span_tree"}
     /\ Connected(CurGraph) /\ Symmetric(CurGraph)) =>
    /\ \A T \in SpanningTrees(CurGraph) : TotalWeight(ret.val) <= SetWeight(T)
    /\ \A k \in kruskal_min_span_tree(CurGraph), m \in prim_min_span_tree(CurGraph) :
         TotalWeight(k) = TotalWeight(m)

\* t holds the vertices of g and some of its edges, as symmetric pairs, without
\* a cycle
IsForestIn(g, t) ==
  /\ Range(t.vertices) = Range(g.vertices)
  /\ Len(t.vertices) = Len(g.vertices)
  /\ Range(all_edges(t)) \subseteq Range(all_edges(g))
  /\ Symmetric(t)
  /\ Acyclic(t)

\* t is a spanning forest of g: it connects exactly the vertices g connects
IsSpanningForest(g, t) ==
  /\ IsForestIn(g, t)
  /\ \A a \in Range(g.vertices), b \in Range(g.vertices) :
       Reaches(t, a, b) <=> Reaches(g, a, b)

\* t is a spanning tree of the component of src and has no other edge
IsTreeOfComponent(g, t, src) ==
  /\ IsForestIn(g, t)
  /\ \A a \in Range(g.vertices), b \in Range(g.vertices) :
       Reaches(t, a, b) <=> (a = b \/ (Reaches(g, src, a) /\ Reaches(g, src, b)))

----------------------------------------------------------------------------
(* Claims about undirected graphs (checked under SpecUndirected) *)

\* the vertices of g can be split in two sets with no edge inside a set
TwoColourable(g) ==
  \E c \in [Range(g.vertices) -> {1, 0 - 1}] :
    \A e \in EdgePairs(g) : c[e[1]] # c[e[2]]

\* g has a closed walk of odd length: some vertex reaches itself with the
\* parity of the number of steps flipped
HasOddCycle(g) ==
  LET steps == {<<<<e[1], b>>, <<e[2], 1 - b>>>> : e \in EdgePairs(g), b \in {0, 1}}
  IN \E v \in Range(g.vertices) : <<<<v, 0>>, <<v, 1>>>> \in TransClose(steps)

SameGroup(cc, u, v) == GroupsOf(cc, u) \cap GroupsOf(cc, v) # {}

\* every vertex of g lies in exactly one group of cc, once
IsPartitionOf(cc, g) ==
  /\ \A v \in Range(g.vertices) : Cardinality(GroupsOf(cc, v)) = 1
  /\ SumSeq([i \in DOMAIN g.vertices |->
               Cardinality({<<id, k>> \in (DOMAIN cc) \X (1 .. Len(g.vertices)) :
                              k \in DOMAIN cc[id] /\ cc[id][k] = g.vertices[i]})])
       = Len(g.vertices)

\* C12: for every graph built from symmetric edge pairs, the results of
\* dfs_connected_components(g) and uf_connected_components(g) induce the same
\* partition of the vertex set: every vertex lies in exactly one group of each
\* result, and two vertices share a group in one iff they share a group in the
\* other (the component ids may differ).
C12_SamePartition ==
  (call.op \in {"dfs_connected_components", "uf_connected_components"}
     /\ Symmetric(CurGraph)) =>
    LET other == IF call.op = "dfs_connected_components"
                   THEN uf_connected_components(CurGraph)
                   ELSE dfs_connected_components(CurGraph)
    IN /\ IsPartitionOf(ret.val, CurGraph)
       /\ IsPartitionOf(other, CurGraph)
       /\ \A u \in Range(vertices), v \in Range(vertices) :
            SameGroup(ret.val, u, v) <=> SameGroup(other, u, v)

\* the depth-first search returned two components, one of them holding two
\* vertices, under ids that are not the roots the union-find uses.
C12_Witness ==
  /\ call.op = "dfs_connected_components"
  /\ Cardinality(DOMAIN ret.val) = 2
  /\ \E id \in DOMAIN ret.val : Len(ret.val[id]) = 2
  /\ DOMAIN ret.val # DOMAIN uf_connected_components(CurGraph)

\* g has no self-loop and no two edges with the same source and destination
SimpleGraph(g) ==
  /\ \A e \in Range(all_edges(g)) : e.v # e.w
  /\ \A i \in DOMAIN all_edges(g), j \in DOMAIN all_edges(g) :
       (all_edges(g)[i].v = all_edges(g)[j].v /\ all_edges(g)[i].w = all_edges(g)[j].w)
         => i = j

\* C21: for every graph built from symmetric edge pairs without self-loops or
\* parallel edges, the undirected dfs_detect_cycle(g) returns true iff the
\* undirected graph contains a cycle; what it reports is a closed walk over at
\* least three vertices, never a tree edge and its reverse; this holds for
\* every choice of vertex ids and of the vertex the search starts from (a root
\* has no parent entry).
C21_UndirectedCycleIff ==
  (call.op = "dfs_detect_cycle_undirected" /\ Symmetric(CurGraph)
     /\ SimpleGraph(CurGraph)) =>
    /\ ret.val <=> ~Acyclic(CurGraph)
    /\ ret.val =>
         /\ IsClosedWalk(CurGraph, ret.cycle)
         /\ Len(ret.cycle) >= 4

\* the search found the triangle from a root other than vertex 0, so that the
\* root's missing parent entry read as 0 named a real neighbour.
C21_Witness ==
  /\ call.op = "dfs_detect_cycle_undirected"
  /\ SimpleGraph(CurGraph)
  /\ ret.val
  /\ Len(vertices) = 3
  /\ Head(vertices) # 0

----------------------------------------------------------------------------
(* Claims about shortest paths (checked under SpecSp, SpecBf, SpecBfs and SpecApsp) *)

NonNegative(g) == \A e \in Range(all_edges(g)) : e.weight >= 0

\* the pairs <<vertex reached, total weight>> of the walks of at most k edges
\* that start at a
RECURSIVE Walks(_, _, _)
Walks(g, a, k) ==
  IF k = 0 THEN {<<a, 0>>}
  ELSE LET W == Walks(g, a, k - 1)
       IN W \cup {<<q[1].w, q[2][2] + q[1].weight>> :
                    q \in {r \in Range(all_edges(g)) \X W : r[1].v = r[2][1]}}

\* the total weights of the paths from a to b (a path repeats no vertex, so it
\* has fewer edges than g has vertices; with non-negative weights no walk is
\* lighter than the lightest path)
PathWeights(g, a, b) == {x[2] : x \in {y \in Walks(g, a, Len(g.vertices) - 1) : y[1] = b}}

MinOf(S) == CHOOSE x \in S : \A y \in S : x <= y

\* the lightest edge from a to b
HopWeight(g, a, b) ==
  MinOf({e.weight : e \in {f \in Range(all_edges(g)) : f.v = a /\ f.w = b}})

\* s is a sequence of vertices from a to b following edges of g
IsPathFromTo(g, s, a, b) ==
  /\ Len(s) >= 1
  /\ s[1] = a
  /\ s[Len(s)] = b
  /\ \A i \in 1 .. (Len(s) - 1) : <<s[i], s[i + 1]>> \in EdgePairs(g)

PathWeight(g, s) == SumSeq([i \in 1 .. (Len(s) - 1) |-> HopWeight(g, s[i], s[i + 1])])

\* C6: on a graph with non-negative weights dijkstra_sssp(g, src, dst) returns
\* true iff dst is reachable from src; when it returns true the distance with
\* which dst is popped is the minimum total weight of a src -> dst path, and
\* the parent mapping followed from dst reaches src along a path of exactly
\* that weight.
C6_DijkstraShortest ==
  (call.op = "dijkstra_sssp" /\ NonNegative(CurGraph)) =>
    /\ ret.val <=> Reaches(CurGraph, call.src, call.dst)
    /\ ret.val =>
         /\ ret.dist = MinOf(PathWeights(CurGraph, call.src, call.dst))
         /\ IsPathFromTo(CurGraph, ret.path, call.src, call.dst)
         /\ PathWeight(CurGraph, ret.path) = ret.dist

\* Dijkstra found a destination whose direct edge from the source is heavier
\* than the path through a third vertex (as 0->1 direct against 0->2->1).
C6_Witness ==
  /\ call.op = "dijkstra_sssp"
  /\ ret.val
  /\ Len(ret.path) = 3
  /\ <<call.src, call.dst>> \in EdgePairs(CurGraph)
  /\ ret.dist < HopWeight(CurGraph, call.src, call.dst)

\* C17: bfs_sssp(g, src, dst) returns false exactly when there is no path from
\* src to dst, and whenever dst is dequeued the parent mapping holds a chain
\* from dst back to src, so that the path is reconstructed and the call
\* returns true.
C17_BfsReturns ==
  call.op = "bfs_sssp" =>
    IF Reaches(CurGraph, call.src, call.dst)
      THEN /\ ret.kind = "bool"
           /\ ret.val
           /\ IsPathFromTo(CurGraph, ret.path, call.src, call.dst)
      ELSE ret.kind = "bool" /\ ~ret.val

\* every pair that an iteration adds to the queue carries the value that a
\* dist_to entry was lowered to in that iteration
C24_PushStep ==
  (call.op = "dijkstra_sssp" /\ call'.op = "dijkstra_sssp") =>
    \A pr \in BagToSet(call'.pq) :
      CopiesIn(pr, call'.pq) > CopiesIn(pr, call.pq) =>
        /\ pr[2] < call.dist_to[pr[1]]
        /\ call'.dist_to[pr[1]] <= pr[2]
        /\ call'.dist_to[pr[1]] < call.dist_to[pr[1]]

\* C24: on every graph with non-negative edge weights (cycles and zero-weight
\* cycles included) a started dijkstra_sssp(g, src, dst) returns, dst reachable
\* or not, and every push to the priority queue follows a strict decrease of
\* the dist_to entry of the vertex pushed.
C24_DijkstraTerminates ==
  /\ (call.op = "dijkstra_sssp") ~> (ret.kind = "bool")
  /\ [][C24_PushStep]_vars

ZeroWeightPairs(g) ==
  {<<e.v, e.w>> : e \in {f \in Range(all_edges(g)) : f.weight = 0}}

\* a run that returned false on a graph where a zero-weight cycle of two or
\* more vertices can be reached from src
C24_Witness ==
  /\ call.op = "dijkstra_sssp"
  /\ ret.kind = "bool"
  /\ ~ret.val
  /\ \E v \in Range(vertices) :
       /\ v # call.src
       /\ Reaches(CurGraph, call.src, v)
       /\ <<v, call.src>> \in TransClose(ZeroWeightPairs(CurGraph))
       /\ <<call.src, v>> \in TransClose(ZeroWeightPairs(CurGraph))

\* C7: on a graph without negative weights, for the same source and
\* destination, the table dist_to of dijkstra_sssp at its return is identical
\* at every vertex to the table dist_to of bellman_ford_sssp after its passes.
C7_SameDistTo ==
  (call.op = "dijkstra_sssp" /\ NonNegative(CurGraph)) =>
    \A v \in Range(vertices) :
      ret.dist_to[v] = bellman_ford_sssp(CurGraph, call.src, call.dst).dist_to[v]

\* g has a cycle of negative total weight
HasNegativeCycle(g) ==
  \E c \in Range(g.vertices) :
    \E x \in Walks(g, c, Len(g.vertices)) : x[1] = c /\ x[2] < 0

\* a cycle of negative total weight can be reached from src
NegativeCycleReachable(g, src) ==
  \E c \in Range(g.vertices) :
    /\ Reaches(g, src, c)
    /\ \E x \in Walks(g, c, Len(g.vertices)) : x[1] = c /\ x[2] < 0

C18_FloydWarshallDistances ==
  (call.op = "floyd_warshall_apsp" /\ ~HasNegativeCycle(CurGraph)) =>
    /\ ret.kind = "bool"
    /\ ret.val
    /\ \A i \in Range(vertices), j \in Range(vertices) :
         ret.dist[<<i, j>>] =
           IF i = j THEN 0
           ELSE IF ~Reaches(CurGraph, i, j) THEN MAX_DIST
           ELSE MinOf(PathWeights(CurGraph, i, j))

\* C19: on a graph without a negative cycle (negative weights allowed), for
\* src and dst with no path from src to dst, bellman_ford_sssp(g, src, dst)
\* returns false at its unreachable check, without attempting the path
\* reconstruction and without raising an error.
C19_UnreachableReturnsFalse ==
  (call.op = "bellman_ford_sssp" /\ ~HasNegativeCycle(CurGraph)
     /\ ~Reaches(CurGraph, call.src, call.dst)) =>
    /\ ret.kind = "bool"
    /\ ret.val = FALSE
    /\ ret.site = "unreachable"

\* C20: the final pass of bellman_ford_sssp finds an improvable edge only if a
\* negative cycle can be reached from src: whenever dst is reachable from src
\* and no negative cycle is reachable from src (a negative cycle among vertices
\* that src does not reach may exist), the call returns true.
C20_FinalPassOnlyReachableCycle ==
  (call.op = "bellman_ford_sssp" /\ Reaches(CurGraph, call.src, call.dst)
     /\ ~NegativeCycleReachable(CurGraph, call.src)) =>
    /\ ret.kind = "bool"
    /\ ret.site # "improvable"
    /\ ret.val = TRUE

====
